---- MODULE Spec2Model ----
(***************************************************************************)
(* A model of the two WEKA helper scripts of nnimg:                        *)
(*                                                                         *)
(*   WEKA_Scripts/wekatokaggle.py  turns WEKA's CSV predictions and a file *)
(*                                 of image names into the one-hot table   *)
(*                                 of the Kaggle competition (Spec);       *)
(*   WEKA_Scripts/imgtocsv.py      turns a directory of images into a CSV  *)
(*                                 manifest and a folder of symbolic links *)
(*                                 (SpecImg).                              *)
(*                                                                         *)
(* Text.  A Python string is modelled as a sequence of tokens.  A token is *)
(* either one of the characters the scripts look at (",", ":", a blank, a  *)
(* newline) or a maximal run of other characters ("DOL", "0.9").  No two   *)
(* runs are adjacent, so two token sequences are equal exactly when the    *)
(* strings are.  File names of imgtocsv.py are sequences of single         *)
(* characters, because sorted() compares them character by character.      *)
(***************************************************************************)
EXTENDS Integers, Sequences, FiniteSets, TLC

\* ------------------------------------------------------------------ bounds

\* The longest image names file (in lines) the model explores.
MaxNames == 2

\* The most prediction lines after the title line the model explores.
MaxPreds == 2

\* The most entries of one label subfolder the model explores.
MaxImgs == 2

\* The most runs of imgtocsv.py into one output directory the model explores.
MaxRuns == 2

\* ------------------------------------------------------- Python's strings

NL == "\n"

\* The characters str.strip() removes from both ends (the ones the model has).
Whitespace == {" ", NL}

Range(s) == {s[i] : i \in DOMAIN s}

\* str.split(sep): the fields between the occurrences of sep; always at
\* least one field.
RECURSIVE Split(_, _)
Split(text, sep) ==
    IF \E i \in DOMAIN text : text[i] = sep
    THEN LET i == CHOOSE k \in DOMAIN text :
                      text[k] = sep /\ \A m \in 1..(k - 1) : text[m] # sep
         IN  <<SubSeq(text, 1, i - 1)>> \o Split(SubSeq(text, i + 1, Len(text)), sep)
    ELSE <<text>>

\* str.strip(): the text without its leading and trailing whitespace.
RECURSIVE Strip(_)
Strip(text) ==
    IF text = <<>> THEN <<>>
    ELSE IF text[1] \in Whitespace THEN Strip(Tail(text))
    ELSE IF text[Len(text)] \in Whitespace THEN Strip(SubSeq(text, 1, Len(text) - 1))
    ELSE text

\* sep.join(texts)
RECURSIVE Join(_, _)
Join(texts, sep) ==
    IF texts = <<>> THEN <<>>
    ELSE IF Len(texts) = 1 THEN texts[1]
    ELSE texts[1] \o <<sep>> \o Join(Tail(texts), sep)

\* A value of a Python list that holds integers and strings.
PyInt(n) == <<"int", n>>
PyStr(text) == <<"str", text>>

\* str(value): a string is itself, an integer its decimal digits (the
\* records hold only 0 and 1).
Str(value) ==
    IF value[1] = "int"
    THEN (IF value[2] = 0 THEN <<"0">> ELSE <<"1">>)
    ELSE value[2]

\* ------------------------------------------------- wekatokaggle.py: constants

CSV_COLS ==
    << <<"image">>, <<"ALB">>, <<"BET">>, <<"DOL">>, <<"LAG">>,
       <<"NoF">>, <<"OTHER">>, <<"SHARK">>, <<"YFT">> >>

\* {label: index for index, label in enumerate(CSV_COLS)}; indexes from 0.
CSV_COLS_MAP ==
    [label \in Range(CSV_COLS) |->
        (CHOOSE i \in DOMAIN CSV_COLS : CSV_COLS[i] = label) - 1]

CSV_TITLE == Join(CSV_COLS, ",")

\* ------------------------------------------------------------------ state

VARIABLES
    image_names_file,   \* the lines of the image names file
    predictions_file,   \* the lines of the predictions file
    names_pos,          \* lines of image_names_file read so far
    preds_pos,          \* lines of predictions_file read so far
    output_file,        \* the lines of the file at output_path
    pc,                 \* "start", "zip", "done" or "raised"
    raised              \* the exception that ended the run, "" if none

wekaVars ==
    <<image_names_file, predictions_file, names_pos, preds_pos,
      output_file, pc, raised>>

VARIABLES
    fs,                 \* the input directory: relative path -> "file" or "dir"
    out_dir_exists,     \* whether output_dir exists
    symlink_dir_exists, \* whether output_dir/images exists
    links,              \* the symbolic links of output_dir/images: name -> target
    train_csv,          \* the lines of output_dir/images_train.csv, <<>> if absent
    test_csv,           \* the lines of output_dir/images_test.csv, <<>> if absent
    mode,               \* the mode of the current run
    ipc,                \* where the current run of imgtocsv.py stands
    iraised,            \* the exception that ended the run, "" if none
    subdirs,            \* training_set_csv's subdirs
    sub_idx,            \* how many of subdirs the outer loop has taken
    listing,            \* os.listdir(subdir_path) of the current subdir
    img_idx,            \* how many entries of listing the inner loop has taken
    runs                \* how many runs were started

imgVars ==
    <<fs, out_dir_exists, symlink_dir_exists, links, train_csv, test_csv,
      mode, ipc, iraised, subdirs, sub_idx, listing, img_idx, runs>>

vars == <<wekaVars, imgVars>>

\* ---------------------------------------------------- wekatokaggle.py: inputs

\* Lines of an image names file: a plain name, a name with blanks around it.
NameLines ==
    { <<"f1.jpg", NL>>, <<" ", "f2.jpg", " ", NL>> }

\* The title line of the predictions file.
TitleLine == <<"header", NL>>

\* A line as WEKA writes it, "1,1:?,3:DOL,,0.9": the prediction is the
\* third of five fields.
WekaLine(label) ==
    <<"1", ",", "1", ":", "?", ",", "3", ":", label, ",", ",", "0.9", NL>>

\* A line whose third field is its last one, "x,y,0.9:DOL": the newline
\* that ends the line follows the label.
ShortLine(label) ==
    <<"x", ",", "y", ",", "0.9", ":", label, NL>>

Labels == {"ALB", "BET", "DOL", "LAG", "NoF", "OTHER", "SHARK", "YFT"}

\* Labels WEKA could print that are no class of the competition.
OtherLabels == {"image", "FOO"}

PredLines ==
    {WekaLine(l) : l \in Labels \cup OtherLabels}
        \cup {ShortLine(l) : l \in {"DOL", "YFT"}}
        \cup { <<"x", ",", "y", NL>>,                        \* two fields
               <<"x", ",", "y", ",", "DOL", ",", "z", NL>> } \* no colon

\* What the file at output_path may hold before the run.
PriorOutputs == { <<>>, << <<"old", NL>>, <<"older", NL>> >> }

SeqsUpTo(S, n) == UNION {[1..k -> S] : k \in 0..n}

\* --------------------------------------------------- wekatokaggle.py: functions

\* image_names_iter: the next item of the generator, reading from line pos.
image_names_iter(file, pos) ==
    IF pos < Len(file)
    THEN [kind |-> "yield", value |-> Strip(file[pos + 1])]
    ELSE [kind |-> "stop"]

\* predictions_csv_iter: the next item of the generator, reading from line
\* pos: the text between the first and the second ":" of the third field.
predictions_csv_iter(file, pos) ==
    IF pos < Len(file)
    THEN LET fields == Split(file[pos + 1], ",")
         IN  IF Len(fields) < 3
             THEN [kind |-> "raise", exc |-> "IndexError"]
             ELSE LET parts == Split(fields[3], ":")
                  IN  IF Len(parts) < 2
                      THEN [kind |-> "raise", exc |-> "IndexError"]
                      ELSE [kind |-> "yield", value |-> parts[2]]
    ELSE [kind |-> "stop"]

\* A zip that asks the predictions for their next item first.
ZipPredictionsFirst(names, npos, preds, ppos) ==
    LET b == predictions_csv_iter(preds, ppos)
    IN  IF b.kind = "stop"
        THEN [kind |-> "stop", names_pos |-> npos, preds_pos |-> ppos]
        ELSE IF b.kind = "raise"
        THEN [kind |-> "raise", exc |-> b.exc,
              names_pos |-> npos, preds_pos |-> ppos + 1]
        ELSE LET a == image_names_iter(names, npos)
             IN  IF a.kind = "stop"
                 THEN [kind |-> "stop", names_pos |-> npos, preds_pos |-> ppos + 1]
                 ELSE [kind |-> "pair", image_name |-> a.value, prediction |-> b.value,
                       names_pos |-> npos + 1, preds_pos |-> ppos + 1]

\* One step of zip(image_names_iter(..), predictions_csv_iter(..)): the
\* first iterator is asked first, and the second only when the first
\* yielded.
Zip(names, npos, preds, ppos) ==
    LET a == image_names_iter(names, npos)
    IN  IF a.kind = "stop"
        THEN [kind |-> "stop", names_pos |-> npos, preds_pos |-> ppos]
        ELSE LET b == predictions_csv_iter(preds, ppos)
             IN  IF b.kind = "stop"
                 THEN [kind |-> "stop", names_pos |-> npos + 1, preds_pos |-> ppos]
                 ELSE IF b.kind = "raise"
                 THEN [kind |-> "raise", exc |-> b.exc,
                       names_pos |-> npos + 1, preds_pos |-> ppos + 1]
                 ELSE [kind |-> "pair", image_name |-> a.value, prediction |-> b.value,
                       names_pos |-> npos + 1, preds_pos |-> ppos + 1]

\* A record builder that uses the index of the dictionary as a position
\* counted from 1.
RecordOffByOne(csv_cols, image_name, prediction) ==
    IF prediction \notin DOMAIN CSV_COLS_MAP
    THEN [kind |-> "raise", exc |-> "KeyError"]
    ELSE LET zeros == [i \in 1..Len(CSV_COLS) |-> PyInt(0)]
             named == [zeros EXCEPT ![1] = PyStr(image_name)]
         IN  [kind |-> "return",
              value |-> IF CSV_COLS_MAP[prediction] = 0 THEN named
                        ELSE [named EXCEPT ![CSV_COLS_MAP[prediction]] = PyInt(1)]]

\* to_kaggle_record: a list of zeros, the image name at index 0, then a 1
\* at the index the dictionary gives for the prediction (Python's indexes
\* start at 0, a sequence's at 1).  The function reads the global CSV_COLS,
\* not its parameter.
to_kaggle_record(csv_cols, image_name, prediction) ==
    IF prediction \notin DOMAIN CSV_COLS_MAP
    THEN [kind |-> "raise", exc |-> "KeyError"]
    ELSE LET zeros == [i \in 1..Len(CSV_COLS) |-> PyInt(0)]
             named == [zeros EXCEPT ![1] = PyStr(image_name)]
         IN  [kind |-> "return",
              value |-> [named EXCEPT ![CSV_COLS_MAP[prediction] + 1] = PyInt(1)]]

\* ",".join(map(str, record)) + "\n"
RecordLine(record) ==
    Join([i \in DOMAIN record |-> Str(record[i])], ",") \o <<NL>>

\* --------------------------------------------------- wekatokaggle.py: actions

InitWeka ==
    /\ image_names_file \in SeqsUpTo(NameLines, MaxNames)
    /\ predictions_file \in
          {<<>>} \cup {<<TitleLine>> \o s : s \in SeqsUpTo(PredLines, MaxPreds)}
    /\ names_pos = 0
    /\ preds_pos = 0
    /\ output_file \in PriorOutputs
    /\ pc = "start"
    /\ raised = ""

\* imgtocsv.py is not run.
ImgIdle ==
    /\ fs = <<>>
    /\ out_dir_exists = FALSE
    /\ symlink_dir_exists = FALSE
    /\ links = <<>>
    /\ train_csv = <<>>
    /\ test_csv = <<>>
    /\ mode = "train"
    /\ ipc = "idle"
    /\ iraised = ""
    /\ subdirs = <<>>
    /\ sub_idx = 0
    /\ listing = <<>>
    /\ img_idx = 0
    /\ runs = 0

\* weka_csv_to_kaggle, lines 219-226: the files are opened, which empties
\* the output file, the title is written and the first line of the
\* predictions is read and dropped.
OpenFiles ==
    /\ pc = "start"
    /\ output_file' = <<CSV_TITLE \o <<NL>>>>
    /\ preds_pos' = IF Len(predictions_file) > 0 THEN 1 ELSE 0
    /\ pc' = "zip"
    /\ UNCHANGED <<image_names_file, predictions_file, names_pos, raised>>
    /\ UNCHANGED imgVars

\* weka_csv_to_kaggle, lines 229-238: one turn of the for loop.
ZipStep ==
    /\ pc = "zip"
    /\ LET z == Zip(image_names_file, names_pos, predictions_file, preds_pos)
           r == to_kaggle_record(CSV_COLS, z.image_name, z.prediction)
       IN  /\ names_pos' = z.names_pos
           /\ preds_pos' = z.preds_pos
           /\ IF z.kind = "stop"
              THEN pc' = "done" /\ UNCHANGED <<output_file, raised>>
              ELSE IF z.kind = "raise"
              THEN pc' = "raised" /\ raised' = z.exc /\ UNCHANGED output_file
              ELSE IF r.kind = "raise"
              THEN pc' = "raised" /\ raised' = r.exc /\ UNCHANGED output_file
              ELSE /\ output_file' = Append(output_file, RecordLine(r.value))
                   /\ UNCHANGED <<pc, raised>>
    /\ UNCHANGED <<image_names_file, predictions_file>>
    /\ UNCHANGED imgVars

NextWeka ==
    \/ OpenFiles
    \/ ZipStep

\* wekatokaggle.py is about to run; imgtocsv.py is not run.
Init == InitWeka /\ ImgIdle

Spec == Init /\ [][NextWeka]_vars

\* ------------------------------------------------------ imgtocsv.py: constants

\* CSV_TITLE of imgtocsv.py, "imgfile,class".
IMG_CSV_TITLE == <<"imgfile", ",", "class">>

Mode == {"train", "test"}

\* The absolute path of the input directory (run, line 221); a path is the
\* sequence of its names.
InputDir == << <<"i", "n">> >>

\* --------------------------------------------------------- imgtocsv.py: inputs

\* Names of regular files directly in the input directory.
RootFiles == { <<"B">>, <<"a">>, <<"a", "b">> }

\* Names of the subfolders of the input directory.
DirNames == { <<"C", "A", "R">>, <<"S", "H", "I", "P">> }

\* Names of regular files in a subfolder.
ImgNames == { <<"a">>, <<"b">> }

\* Name of a folder inside a subfolder.
NestedDir == <<"n">>

\* The input directory with the regular files F, the subfolders D and in
\* subfolder d the entries ch[d].
Tree(F, D, ch) ==
    [p \in {<<f>> : f \in F} \cup {<<d>> : d \in D}
           \cup UNION {{<<d, c>> : c \in ch[d]} : d \in D} |->
        IF Len(p) = 1
        THEN (IF p[1] \in D THEN "dir" ELSE "file")
        ELSE (IF p[2] = NestedDir THEN "dir" ELSE "file")]

Trees ==
    UNION { UNION { { Tree(F, D, ch) :
                        ch \in [D -> {E \in SUBSET (ImgNames \cup {NestedDir}) :
                                          Cardinality(E) <= MaxImgs}] } :
                    D \in SUBSET DirNames } :
            F \in SUBSET RootFiles }

\* What images_train.csv may hold before the first run.
PriorManifests == { <<>>, << IMG_CSV_TITLE \o <<NL>>, <<"o", "l", "d", ",", "X", NL>> >> }

\* ------------------------------------------------------ imgtocsv.py: functions

\* The code point of a character (Python compares strings by code points).
Ord(c) ==
    CASE c = "A" -> 65 [] c = "B" -> 66 [] c = "C" -> 67 [] c = "H" -> 72
      [] c = "I" -> 73 [] c = "P" -> 80 [] c = "R" -> 82 [] c = "S" -> 83
      [] c = "a" -> 97 [] c = "b" -> 98 [] c = "n" -> 110

\* a < b for Python strings: at the first place where they differ the
\* smaller code point decides; a proper prefix is smaller.
RECURSIVE StrLess(_, _)
StrLess(a, b) ==
    IF b = <<>> THEN FALSE
    ELSE IF a = <<>> THEN TRUE
    ELSE IF Ord(a[1]) # Ord(b[1]) THEN Ord(a[1]) < Ord(b[1])
    ELSE StrLess(Tail(a), Tail(b))

\* sorted(names): insertion of each name into the sorted rest.
RECURSIVE Insert(_, _)
Insert(x, s) ==
    IF s = <<>> THEN <<x>>
    ELSE IF StrLess(s[1], x) THEN <<s[1]>> \o Insert(x, Tail(s))
    ELSE <<x>> \o s

RECURSIVE Sorted(_)
Sorted(names) ==
    IF names = <<>> THEN <<>> ELSE Insert(names[1], Sorted(Tail(names)))

\* os.path.join(a, b) on paths kept as sequences of names.
PathJoin(path, name) == Append(path, name)

\* os.path.isdir, os.path.isfile on a path relative to the input directory.
isdir(tree, path) == path \in DOMAIN tree /\ tree[path] = "dir"

\* An isfile that is true of everything that exists.
IsFileOrDir(tree, path) == path \in DOMAIN tree

isfile(tree, path) == path \in DOMAIN tree /\ tree[path] = "file"

\* The names os.listdir(path) returns, as a set.
ListDir(tree, path) ==
    {p[Len(p)] : p \in {q \in DOMAIN tree :
                           Len(q) = Len(path) + 1 /\ SubSeq(q, 1, Len(path)) = path}}

\* The orders in which os.listdir may return the names S.
Orders(S) ==
    {s \in [1..Cardinality(S) -> S] : \A x \in S : \E i \in DOMAIN s : s[i] = x}

\* A get_subdirs that returns an empty list instead of raising.
GetSubdirsNoRaise(tree, names) ==
    [kind |-> "return", value |-> SelectSeq(names, LAMBDA n : isdir(tree, <<n>>))]

\* get_subdirs, given the names os.listdir(directory) returned.
get_subdirs(tree, names) ==
    LET found == SelectSeq(names, LAMBDA n : isdir(tree, <<n>>))
    IN  IF Len(found) = 0
        THEN [kind |-> "raise", exc |-> "ValueError"]
        ELSE [kind |-> "return", value |-> found]

\* A symlink that leaves an existing link alone and reports nothing.
SymlinkSkipExisting(dir, src, name) ==
    [kind |-> "return",
     value |-> [n \in DOMAIN dir \cup {name} |-> IF n \in DOMAIN dir THEN dir[n] ELSE src]]

\* A symlink that replaces an existing link (ln -sf).
SymlinkForce(dir, src, name) ==
    [kind |-> "return",
     value |-> [n \in DOMAIN dir \cup {name} |-> IF n = name THEN src ELSE dir[n]]]

\* os.symlink(src, os.path.join(SYMLINK_DIR, name)) on the links dir of
\* SYMLINK_DIR: an existing name is an error.
os_symlink(dir, src, name) ==
    IF name \in DOMAIN dir
    THEN [kind |-> "raise", exc |-> "FileExistsError"]
    ELSE [kind |-> "return",
          value |-> [n \in DOMAIN dir \cup {name} |-> IF n = name THEN src ELSE dir[n]]]

\* "{},{}\n".format(img, subdir)
TrainRow(img, subdir) == img \o <<",">> \o subdir \o <<NL>>

\* "{},0\n".format(img)
TestRow(img) == img \o <<",", "0", NL>>

\* A test_set_csv that keeps the order of os.listdir.
TestSetCsvUnsorted(tree, names) ==
    <<IMG_CSV_TITLE \o <<NL>>>>
        \o [i \in 1..Len(SelectSeq(names, LAMBDA n : isfile(tree, <<n>>))) |->
               TestRow(SelectSeq(names, LAMBDA n : isfile(tree, <<n>>))[i])]

\* test_set_csv: the lines written to images_test.csv, given the names
\* os.listdir(input_dir) returned.
test_set_csv(tree, names) ==
    LET imgs == SelectSeq(Sorted(names), LAMBDA n : isfile(tree, <<n>>))
    IN  <<IMG_CSV_TITLE \o <<NL>>>> \o [i \in 1..Len(imgs) |-> TestRow(imgs[i])]

\* -------------------------------------------------------- imgtocsv.py: actions

\* wekatokaggle.py is not run.
WekaIdle ==
    /\ image_names_file = <<>>
    /\ predictions_file = <<>>
    /\ names_pos = 0
    /\ preds_pos = 0
    /\ output_file = <<>>
    /\ pc = "idle"
    /\ raised = ""

\* An input directory, and an output directory that does not exist, or
\* exists with or without the links folder and a manifest of an earlier use.
InitImg ==
    /\ fs \in Trees
    /\ out_dir_exists \in BOOLEAN
    /\ symlink_dir_exists \in (IF out_dir_exists THEN BOOLEAN ELSE {FALSE})
    /\ train_csv \in (IF out_dir_exists THEN PriorManifests ELSE {<<>>})
    /\ links = <<>>
    /\ test_csv = <<>>
    /\ mode = "train"
    /\ ipc = "idle"
    /\ iraised = ""
    /\ subdirs = <<>>
    /\ sub_idx = 0
    /\ listing = <<>>
    /\ img_idx = 0
    /\ runs = 0

\* run, lines 218-235, called with an input_dir that is a directory (the
\* model has no other): the output directory is made unless it exists and
\* becomes the working directory; then the mode decides.  One run follows
\* another only when the earlier one has ended.
Run ==
    /\ ipc \in {"idle", "done", "raised"}
    /\ runs < MaxRuns
    /\ \E m \in Mode :
          /\ mode' = m
          /\ ipc' = IF m = "train" THEN "get_subdirs" ELSE "test_set_csv"
    /\ runs' = runs + 1
    /\ out_dir_exists' = TRUE
    /\ iraised' = ""
    /\ subdirs' = <<>>
    /\ sub_idx' = 0
    /\ listing' = <<>>
    /\ img_idx' = 0
    /\ UNCHANGED <<fs, symlink_dir_exists, links, train_csv, test_csv>>
    /\ UNCHANGED wekaVars

\* training_set_csv, line 155.
GetSubdirs ==
    /\ ipc = "get_subdirs"
    /\ \E names \in Orders(ListDir(fs, <<>>)) :
          LET r == get_subdirs(fs, names)
          IN  IF r.kind = "raise"
              THEN ipc' = "raised" /\ iraised' = r.exc /\ UNCHANGED subdirs
              ELSE ipc' = "mkdir" /\ subdirs' = r.value /\ UNCHANGED iraised
    /\ UNCHANGED <<fs, out_dir_exists, symlink_dir_exists, links, train_csv,
                   test_csv, mode, sub_idx, listing, img_idx, runs>>
    /\ UNCHANGED wekaVars

\* training_set_csv, lines 158-161: FileExistsError is passed over.
MakeSymlinkDir ==
    /\ ipc = "mkdir"
    /\ symlink_dir_exists' = TRUE
    /\ ipc' = "open"
    /\ UNCHANGED <<fs, out_dir_exists, links, train_csv, test_csv, mode, iraised,
                   subdirs, sub_idx, listing, img_idx, runs>>
    /\ UNCHANGED wekaVars

\* An open(.., "a"), which keeps what the file holds.
OpenTrainCsvAppend ==
    /\ ipc = "open"
    /\ train_csv' = Append(train_csv, IMG_CSV_TITLE \o <<NL>>)
    /\ ipc' = "subdir"
    /\ UNCHANGED <<fs, out_dir_exists, symlink_dir_exists, links, test_csv, mode,
                   iraised, subdirs, sub_idx, listing, img_idx, runs>>
    /\ UNCHANGED wekaVars

\* training_set_csv, lines 164-166: open(.., "w") empties the file.
OpenTrainCsv ==
    /\ ipc = "open"
    /\ train_csv' = <<IMG_CSV_TITLE \o <<NL>>>>
    /\ ipc' = "subdir"
    /\ UNCHANGED <<fs, out_dir_exists, symlink_dir_exists, links, test_csv, mode,
                   iraised, subdirs, sub_idx, listing, img_idx, runs>>
    /\ UNCHANGED wekaVars

\* training_set_csv, lines 169-171 and 180: the next subdir is listed, or
\* the loop ends and the file is closed.
NextSubdir ==
    /\ ipc = "subdir"
    /\ IF sub_idx < Len(subdirs)
       THEN /\ sub_idx' = sub_idx + 1
            /\ listing' \in Orders(ListDir(fs, <<subdirs[sub_idx + 1]>>))
            /\ img_idx' = 0
            /\ ipc' = "img"
       ELSE /\ ipc' = "done"
            /\ UNCHANGED <<sub_idx, listing, img_idx>>
    /\ UNCHANGED <<fs, out_dir_exists, symlink_dir_exists, links, train_csv,
                   test_csv, mode, iraised, subdirs, runs>>
    /\ UNCHANGED wekaVars

\* training_set_csv, lines 171-175: the next entry of the subdir; a regular
\* file gets its row.
NextImg ==
    /\ ipc = "img"
    /\ IF img_idx < Len(listing)
       THEN /\ img_idx' = img_idx + 1
            /\ IF isfile(fs, <<subdirs[sub_idx], listing[img_idx + 1]>>)
               THEN /\ train_csv' =
                         Append(train_csv,
                                TrainRow(listing[img_idx + 1], subdirs[sub_idx]))
                    /\ ipc' = "symlink"
               ELSE UNCHANGED <<train_csv, ipc>>
       ELSE /\ ipc' = "subdir"
            /\ UNCHANGED <<img_idx, train_csv>>
    /\ UNCHANGED <<fs, out_dir_exists, symlink_dir_exists, links, test_csv, mode,
                   iraised, subdirs, sub_idx, listing, runs>>
    /\ UNCHANGED wekaVars

\* The path of the entry the inner loop stands at.
ImgPath == PathJoin(PathJoin(InputDir, subdirs[sub_idx]), listing[img_idx])

\* training_set_csv, line 178.
Symlink ==
    /\ ipc = "symlink"
    /\ LET r == os_symlink(links, ImgPath, listing[img_idx])
       IN  IF r.kind = "raise"
           THEN ipc' = "raised" /\ iraised' = r.exc /\ UNCHANGED links
           ELSE ipc' = "img" /\ links' = r.value /\ UNCHANGED iraised
    /\ UNCHANGED <<fs, out_dir_exists, symlink_dir_exists, train_csv, test_csv,
                   mode, subdirs, sub_idx, listing, img_idx, runs>>
    /\ UNCHANGED wekaVars

\* test_set_csv, the whole function.
TestSetCsv ==
    /\ ipc = "test_set_csv"
    /\ \E names \in Orders(ListDir(fs, <<>>)) :
          test_csv' = test_set_csv(fs, names)
    /\ ipc' = "done"
    /\ UNCHANGED <<fs, out_dir_exists, symlink_dir_exists, links, train_csv, mode,
                   iraised, subdirs, sub_idx, listing, img_idx, runs>>
    /\ UNCHANGED wekaVars

NextImgToCsv ==
    \/ Run
    \/ GetSubdirs
    \/ MakeSymlinkDir
    \/ OpenTrainCsv
    \/ NextSubdir
    \/ NextImg
    \/ Symlink
    \/ TestSetCsv

\* imgtocsv.py is about to run; wekatokaggle.py is not run.
InitImgToCsv == InitImg /\ WekaIdle

SpecImg == InitImgToCsv /\ [][NextImgToCsv]_vars

\* ======================================================================
\* Properties of wekatokaggle.py (checked under Spec)
\* ======================================================================

\* The eight classes in the order of the columns of the submission.
LabelOrder == <<"ALB", "BET", "DOL", "LAG", "NoF", "OTHER", "SHARK", "YFT">>

ClassTexts == {<<LabelOrder[k]>> : k \in DOMAIN LabelOrder}

HeaderRow ==
    <<"image", ",", "ALB", ",", "BET", ",", "DOL", ",", "LAG", ",",
      "NoF", ",", "OTHER", ",", "SHARK", ",", "YFT", NL>>

\* ",b1,...,b8" with bk = 1 exactly for the k-th class being the label.
RECURSIVE OneHot(_, _)
OneHot(label, k) ==
    IF k > Len(LabelOrder) THEN <<>>
    ELSE <<",", IF <<LabelOrder[k]>> = label THEN "1" ELSE "0">> \o OneHot(label, k + 1)

\* The row of the submission for an image name and a class.
OneHotRow(name, label) == name \o OneHot(label, 1) \o <<NL>>

\* The lines of image names and of predictions after the title line.
NumNames == Len(image_names_file)
NumPreds == IF predictions_file = <<>> THEN 0 ELSE Len(predictions_file) - 1
Min(a, b) == IF a < b THEN a ELSE b

\* What the code decodes from the i-th prediction line after the title.
Decoded(i) == predictions_csv_iter(predictions_file, i)

\* The first n prediction lines decode to one of the eight classes.
ValidUpTo(n) ==
    \A i \in 1..n : Decoded(i).kind = "yield" /\ Decoded(i).value \in ClassTexts

\* The title row and one row for each of the first n pairs.
ExpectedOutput(n) ==
    <<HeaderRow>>
        \o [i \in 1..n |-> OneHotRow(Strip(image_names_file[i]), Decoded(i).value)]

\* C1: N image names and a title line followed by N prediction lines, all
\* decoding to one of the eight classes, give exactly N+1 rows: the title
\* row and, for each i, the stripped i-th name followed by eight fields that
\* are 0 except a single 1 at the position of the i-th label; the run does
\* not raise.
C1_OneHotRows ==
    (predictions_file # <<>> /\ NumPreds = NumNames /\ ValidUpTo(NumNames))
        => /\ pc # "raised"
           /\ pc = "done" => output_file = ExpectedOutput(NumNames)

\* C1's case: two names, one of them padded with blanks, two different
\* classes, and the run has ended.
C1_Witness ==
    /\ pc = "done"
    /\ NumNames = 2 /\ NumPreds = 2 /\ ValidUpTo(2)
    /\ image_names_file[2] # Strip(image_names_file[2]) \o <<NL>>
    /\ Decoded(1).value # Decoded(2).value
    /\ Len(output_file) = 3

\* C2 (as claimed): no row is ever written for an instance whose decoded
\* label is not one of the eight classes; the run raises there instead.
C2_UnknownLabelRaises ==
    pc # "start" =>
        \A i \in 1..(Len(output_file) - 1) :
            Decoded(i).kind = "yield" => Decoded(i).value \in ClassTexts

\* The text after the first ":" of the third comma-delimited field of a
\* line taken without the newline that ends it.
LabelOfLine(line) ==
    LET fields == Split(Strip(line), ",")
        third == fields[3]
        colon == CHOOSE k \in DOMAIN third :
                    third[k] = ":" /\ \A m \in 1..(k - 1) : third[m] # ":"
    IN  SubSeq(third, colon + 1, Len(third))

\* The third field of the line has the form <prefix>:<label>, the label
\* one of the eight classes.
WellFormed(line) ==
    /\ Len(Split(Strip(line), ",")) >= 3
    /\ ":" \in Range(Split(Strip(line), ",")[3])
    /\ LabelOfLine(line) \in ClassTexts

\* C3 (as claimed): when every prediction line has a third field
\* <prefix>:<label>, last field of the line or not, and there are as many
\* names as predictions, the run ends without an error and row i carries
\* the label after the first ":" of the third field of line i.
C3_LabelAfterColon ==
    (/\ pc \in {"done", "raised"}
     /\ predictions_file # <<>>
     /\ NumPreds = NumNames
     /\ \A i \in 1..NumPreds : WellFormed(predictions_file[i + 1]))
        => /\ pc = "done"
           /\ output_file =
                 <<HeaderRow>>
                     \o [i \in 1..NumNames |->
                            OneHotRow(Strip(image_names_file[i]),
                                      LabelOfLine(predictions_file[i + 1]))]

\* C4: pairing is by position and stops at the shorter stream: when the
\* first min(A, P) prediction lines decode to classes, the run does not
\* raise, whatever the lines after them hold, and ends with exactly
\* min(A, P) data rows, row i made of the i-th name and the i-th label.
C4_StopsAtShorter ==
    ValidUpTo(Min(NumNames, NumPreds))
        => /\ pc # "raised"
           /\ pc = "done" => output_file = ExpectedOutput(Min(NumNames, NumPreds))

\* C4's case: more prediction lines than names, the first line after the
\* last pair is malformed, and the run has ended with one data row.
C4_Witness ==
    /\ pc = "done"
    /\ NumNames = 1 /\ NumPreds = 2
    /\ ValidUpTo(1)
    /\ Decoded(2).kind = "raise"
    /\ Len(output_file) = 2

\* ======================================================================
\* Properties of imgtocsv.py (checked under SpecImg)
\* ======================================================================

ManifestTitle == <<"imgfile", ",", "class", NL>>

\* The regular files directly inside the subfolders of the input directory.
LabeledFiles == {p \in DOMAIN fs : Len(p) = 2 /\ fs[p] = "file"}

\* The regular files directly inside the input directory.
TopFiles == {p[1] : p \in {q \in DOMAIN fs : Len(q) = 1 /\ fs[q] = "file"}}

HasSubdir == \E p \in DOMAIN fs : Len(p) = 1 /\ fs[p] = "dir"

\* Two different subfolders hold a regular file of the same name.
HasCollision == \E p, q \in LabeledFiles : p # q /\ p[2] = q[2]

\* The two fields of a row of a manifest.
RowName(row) == Split(SubSeq(row, 1, Len(row) - 1), ",")[1]
RowLabel(row) == Split(SubSeq(row, 1, Len(row) - 1), ",")[2]

\* The place of a label in training_set_csv's list of subfolders.
SubdirIndex(label) == CHOOSE k \in DOMAIN subdirs : subdirs[k] = label

\* The first run into an output directory that holds no links: a labeled run.
FirstTrainRun == runs = 1 /\ mode = "train"

\* C5: with at least one label subfolder, pairwise distinct file names and
\* no prior links, the labeled run ends without an error; the manifest is
\* the title row and one row (filename, subfolder) for each regular file
\* directly inside a subfolder, the rows of a subfolder together and the
\* subfolders in listing order; the links are one for each such file, named
\* by the file and pointing at its path.
C5_ManifestAndLinks ==
    (FirstTrainRun /\ HasSubdir /\ ~HasCollision)
        => /\ ipc # "raised"
           /\ ipc = "done" =>
                /\ train_csv[1] = ManifestTitle
                /\ Len(train_csv) = 1 + Cardinality(LabeledFiles)
                /\ {train_csv[i] : i \in 2..Len(train_csv)}
                      = {p[2] \o <<",">> \o p[1] \o <<NL>> : p \in LabeledFiles}
                /\ \A i, j \in 2..Len(train_csv) :
                      i < j => SubdirIndex(RowLabel(train_csv[i]))
                                  <= SubdirIndex(RowLabel(train_csv[j]))
                /\ DOMAIN links = {p[2] : p \in LabeledFiles}
                /\ \A p \in LabeledFiles : links[p[2]] = InputDir \o p

\* C5's case: two label subfolders with one file each, a nested folder in
\* one of them, and the run has ended.
C5_Witness ==
    /\ FirstTrainRun /\ ipc = "done"
    /\ ~HasCollision
    /\ Len(subdirs) = 2
    /\ Cardinality(LabeledFiles) = 2
    /\ \E p \in DOMAIN fs : Len(p) = 2 /\ fs[p] = "dir"
    /\ Len(train_csv) = 3
    /\ RowLabel(train_csv[2]) # RowLabel(train_csv[3])

\* C6 (as claimed): two subfolders with a file of the same name make the
\* labeled run raise, and when it has raised there is no link for either
\* of the two files.
C6_NoLinkForEither ==
    (FirstTrainRun /\ HasCollision)
        => /\ ipc # "done"
           /\ ipc = "raised" =>
                /\ iraised = "FileExistsError"
                /\ listing[img_idx] \notin DOMAIN links

\* C6 (amended): two subfolders with a file of the same name make the
\* labeled run raise FileExistsError at the second of the two files it
\* meets; the link of that name then exists and points at the first of the
\* two, in a subfolder taken earlier, and no link points at the second.
C6_LinkOfFirstStays ==
    (FirstTrainRun /\ HasCollision)
        => /\ ipc # "done"
           /\ ipc = "raised" =>
                /\ iraised = "FileExistsError"
                /\ listing[img_idx] \in DOMAIN links
                /\ \E k \in 1..(sub_idx - 1) :
                      /\ isfile(fs, <<subdirs[k], listing[img_idx]>>)
                      /\ links[listing[img_idx]]
                            = InputDir \o <<subdirs[k], listing[img_idx]>>
                /\ \A n \in DOMAIN links : links[n] # ImgPath

\* C6's case: the run has raised at the file "a" of the second subfolder.
C6_Witness ==
    /\ FirstTrainRun /\ HasCollision
    /\ ipc = "raised" /\ iraised = "FileExistsError"
    /\ sub_idx = 2
    /\ listing[img_idx] = <<"a">>

\* C7: an input directory without subfolders makes the labeled run raise
\* ValueError in get_subdirs, and no step of such a run creates the links
\* folder, a link or the manifest, or changes them.
C7_NoSubdirsRaisesFirst ==
    /\ []((~HasSubdir /\ mode = "train" /\ runs >= 1)
            => /\ ipc \in {"get_subdirs", "raised"}
               /\ ipc = "raised" => iraised = "ValueError")
    /\ [][(~HasSubdir /\ mode' = "train")
            => UNCHANGED <<symlink_dir_exists, links, train_csv>>]_vars

\* C7's case: only regular files in the input directory, a manifest of an
\* earlier use and no links folder in the output directory, and the run
\* has raised.
C7_Witness ==
    /\ ~HasSubdir /\ TopFiles # {}
    /\ mode = "train" /\ ipc = "raised" /\ iraised = "ValueError"
    /\ ~symlink_dir_exists
    /\ Len(train_csv) = 2

\* The rows of the test manifest: the title, then one row "name,0" for each
\* regular file of the input directory, the names ascending.
TestManifestOk ==
    /\ test_csv[1] = ManifestTitle
    /\ Len(test_csv) = 1 + Cardinality(TopFiles)
    /\ \A i \in 2..Len(test_csv) :
          \E f \in TopFiles : test_csv[i] = f \o <<",", "0", NL>>
    /\ \A i, j \in 2..Len(test_csv) :
          i < j => StrLess(RowName(test_csv[i]), RowName(test_csv[j]))

\* C8: the unlabeled run writes the title and one row for each regular file
\* directly inside the input directory, in ascending order of the names and
\* all with the same label field; no step of it creates the links folder or
\* a link.
C8_TestManifest ==
    /\ []((mode = "test" /\ ipc = "done") => TestManifestOk)
    /\ [][mode' = "test" => UNCHANGED <<symlink_dir_exists, links>>]_vars

\* C8's case: the files "B", "a" and "ab" beside two subfolders, links of
\* an earlier labeled run, and the rows in the order B, a, ab.
C8_Witness ==
    /\ mode = "test" /\ ipc = "done"
    /\ Cardinality(ListDir(fs, <<>>)) = 5
    /\ links # <<>>
    /\ test_csv = << ManifestTitle,
                     <<"B", ",", "0", NL>>,
                     <<"a", ",", "0", NL>>,
                     <<"a", "b", ",", "0", NL>> >>

\* C9: a link that exists keeps its name and its target in every step of
\* every run; a run that comes to a file whose name is a link already
\* raises FileExistsError there and leaves the links as they are; an output
\* directory and a links folder that exist make no step raise.
C9_LinksNeverRetargeted ==
    /\ [][\A n \in DOMAIN links : n \in DOMAIN links' /\ links'[n] = links[n]]_vars
    /\ [][(ipc = "symlink" /\ listing[img_idx] \in DOMAIN links)
            => (ipc' = "raised" /\ iraised' = "FileExistsError" /\ links' = links)]_vars
    /\ [][(ipc \in {"idle", "done", "raised", "mkdir"}) => ipc' # "raised"]_vars

\* C9's case: a second labeled run on the same input has raised at the
\* first file it met, whose link still points where the first run set it,
\* in an output directory and links folder that the first run left.
C9_Witness ==
    /\ runs = 2 /\ mode = "train"
    /\ ipc = "raised" /\ iraised = "FileExistsError"
    /\ Len(train_csv) = 2
    /\ Cardinality(DOMAIN links) = 2
    /\ links[listing[img_idx]] = ImgPath

\* The data rows of the training manifest and the links.
NumRows == Len(train_csv) - 1
NumLinks == Cardinality(DOMAIN links)

\* C10: in a labeled run that started without links, the row of a file is
\* written before its link is made: the rows are as many as the links, or
\* one more while the link of the last row is due; when the link fails on a
\* name that exists, the manifest holds the row of that file, its filename
\* twice, and one row more than there are links.
C10_RowBeforeLink ==
    (FirstTrainRun /\ ipc \in {"subdir", "img", "symlink", "done", "raised"}
       /\ iraised # "ValueError")
        => /\ ipc \in {"subdir", "img", "done"} => NumRows = NumLinks
           /\ ipc = "symlink" => NumRows = NumLinks + 1
           /\ ipc = "raised" =>
                /\ NumRows = NumLinks + 1
                /\ train_csv[Len(train_csv)]
                      = listing[img_idx] \o <<",">> \o subdirs[sub_idx] \o <<NL>>
                /\ Cardinality({i \in 2..Len(train_csv) :
                                   RowName(train_csv[i]) = listing[img_idx]}) = 2
                /\ links[listing[img_idx]] # ImgPath

\* C10's case: the run has raised after two links, with three rows in the
\* manifest.
C10_Witness ==
    /\ FirstTrainRun
    /\ ipc = "raised" /\ iraised = "FileExistsError"
    /\ NumLinks = 2 /\ NumRows = 3

====
